---- MODULE Spec2Model ----
(***************************************************************************)
(* A model of two parts of the live-output stage of OvenMediaEngine:       *)
(*                                                                         *)
(*   RtmpWriter        src/src/projects/modules/rtmp/rtmp_writer.cpp       *)
(*   MpegtsPushStream  src/unnamed/part_000 (mpegtspush_stream.cpp)        *)
(*                                                                         *)
(* Three specifications share the module:                                  *)
(*   Spec        the Writer, one action per operation. Every operation     *)
(*               holds _lock from its first line to its return, so an      *)
(*               operation is one atomic step.                             *)
(*   LockSpec    the Writer driven by concurrent threads, with the         *)
(*               acquisition and the release of _lock as steps.            *)
(*   StreamSpec  the Stream, one step per statement of its methods, which  *)
(*               take no lock of their own.                                *)
(***************************************************************************)
EXTENDS Integers, Sequences, FiniteSets, TLC

\* ---------------------------------------------------------------- bounds

\* Container contexts allocated over the Writer's lifetime.
MaxCtx == 2
\* Stream slots one container context may hold.
MaxStreams == 2
\* Transports opened and not yet closed.
MaxOpen == 2
\* Session ids issued over the Stream's lifetime.
MaxSessionId == 2
\* Timestamps around zero run from -MaxPts to MaxPts.
MaxPts == 2

\* ------------------------------------------------------------ value sets

Null == 0
CtxIds == 1..MaxCtx

\* Target paths; "" is the empty path SetPath rejects.
Paths == {"", "rtmp://h/app/s1"}

\* Container format names handed to avformat_alloc_output_context2. "null" is
\* a muxer that is none of flv/mp4/mpegts and carries AVFMT_NOFILE; "bogus" is
\* a name no muxer has.
KnownFormats == {"flv", "mp4", "mpegts", "null"}
Formats == KnownFormats \cup {"bogus"}

MediaTypes == {"Video", "Audio", "Data"}
\* Track ids of the packets the pipeline carries, and those among them the
\* caller registers with AddTrack: track 2 is a track left out of this output.
TrackIds == {1, 2}
AddedTrackIds == {1}

\* Track descriptors (RtmpTrackInfo): codec id and timebase 1/den.
Descriptors == { [codec |-> "H264", den |-> 1000], [codec |-> "Aac", den |-> 90000] }

\* cmn::BitstreamFormat values; "OPUS" stands for every value the switches of
\* PutData do not list.
BitstreamFormats == {"H264_AVCC", "H264_ANNEXB", "AAC_RAW", "AAC_ADTS", "OPUS"}

\* Outcomes of dereferencing a null context pointer (undefined behaviour): the
\* process faults, or the call carries on and returns true or false.
NullDerefOutcomes == {"fault", "true", "false"}

\* Outcomes of reading streams[] beyond its end (undefined behaviour): the
\* process faults, the read yields nullptr, or it yields a garbage pointer.
StaleSlotOutcomes == {"fault", "nullptr", "garbage"}

\* --------------------------------------------------------------- state

VARIABLES
    \* RtmpWriter members
    _path,              \* ov::String _path
    _format_context,    \* AVFormatContext *_format_context (Null or a CtxId)
    _track_map,         \* std::map<int32_t, int> track_id -> stream index
    _trackinfo_map,     \* std::map<int32_t, RtmpTrackInfo> track_id -> descriptor
    _lock,              \* std::mutex _lock: NoOwner or the thread that owns it
    \* the multiplexer library's side of the Writer
    heap,               \* CtxId -> the context's fields; st is unallocated, live or freed
    open_transports,    \* AVIOContexts opened by avio_open2 and not closed
    \* observations of the Writer's run
    double_free,        \* a context was released twice
    uaf,                \* a released context was accessed
    fault,              \* the process faulted
    destroyed,          \* ~RtmpWriter has run
    lifecycle,          \* the most recent SetPath/Start/Stop and its result
    registered,         \* track ids AddTrack has put in the track maps
    last,               \* the operation that returned last, and what it did
    \* Writer threads (LockSpec)
    wpc,                \* thread -> where it is (idle, wait, in) and in which operation
    \* MpegtsPushStream and its base pub::Stream
    state,              \* Stream::State
    sessions,           \* session ids in the session set
    workers,            \* stream workers provisioned and running
    provisioned,        \* how many times CreateStreamWorker succeeded
    last_session_id,    \* last id IssueUniqueSessionId returned
    ever_bound,         \* ids a session of this Stream was ever constructed with
    bytes_out,          \* the amount last handed to IncreaseBytesOut
    bcast,              \* the last BroadcastPacket: state at that moment, recipients, length
    spc,                \* thread -> the line it is about to run, or the return it took
    sret,               \* thread -> the value the method returned
    slocal,             \* thread -> the method's argument or local (payload length, session id)
    \* the timestamps of one track's packets through PutData (RescaleSpec)
    time_base,          \* track_info->GetTimeBase() and stream->time_base
    packet,             \* the pts and dts PutData was called with
    av_packet,          \* av_packet.pts and av_packet.dts, once lines 306-307 have run
    prev_packet         \* the pts of the track's packet before, and what it became

writer_vars == << _path, _format_context, _track_map, _trackinfo_map, heap,
                  open_transports, double_free, uaf, fault, destroyed,
                  lifecycle, registered, last >>
lock_vars   == << _lock, wpc >>
stream_vars == << state, sessions, workers, provisioned, last_session_id, ever_bound,
                  bytes_out, bcast, spc, sret, slocal >>
rescale_vars == << time_base, packet, av_packet, prev_packet >>
vars == << writer_vars, lock_vars, stream_vars, rescale_vars >>

WThreads == {"w1", "w2"}
WriterOps == {"SetPath", "Start", "Stop", "AddTrack", "PutData"}
Idle == [at |-> "idle", op |-> "none"]
NoOwner == "none"

ControlThreads == {"c1", "c2"}
IngestThreads  == {"i1"}
SessionThreads == {"p1"}
SThreads == ControlThreads \cup IngestThreads \cup SessionThreads

\* ------------------------------------------------ the multiplexer library

\* AVFMT_NOFILE: the muxer does its own I/O and wants no handle from the caller.
NoFile(oformat) == oformat = "null"

\* A fresh AVFormatContext: no I/O handle (pb), no header, no streams.
NewContext(format) ==
    [st |-> "live", oformat |-> format, pb |-> FALSE, header |-> FALSE,
     nb_streams |-> 0]

\* An id not handed out yet, and the remains of a released context.
Unallocated == [NewContext("none") EXCEPT !.st = "unallocated"]
Freed == [NewContext("none") EXCEPT !.st = "freed"]

\* Ids handed out so far are 1..NAlloc: an id is never handed out twice.
NAlloc == Cardinality({c \in CtxIds : heap[c].st # "unallocated"})

\* What the last operation did; every operation fills all fields.
\* conv is the outcome of the bitstream converter, "none" when it was not
\* called; after tells a PutData that the call before it was a PutData that
\* failed at the converter or at the write.
NoCall == [op |-> "none", returned |-> FALSE, ret |-> FALSE, track |-> 0,
           media |-> "none", format |-> "none", wrote |-> FALSE,
           data |-> "none", slots |-> 0, conv |-> "none", after |-> FALSE]

\* The operation returned r.
Returned(op, r) == [NoCall EXCEPT !.op = op, !.returned = TRUE, !.ret = r]

\* The library's view while one operation runs: the heap, the Writer's context
\* pointer, the open transports, and the two misuses it can observe.
LibNow == [heap |-> heap, ptr |-> _format_context, open |-> open_transports,
           dfree |-> double_free, uaf |-> uaf]

\* avformat_free_context(p): a no-op on nullptr; releases the context, not its
\* I/O handle.
avformat_free_context(m, p) ==
    IF p = Null THEN m
    ELSE IF m.heap[p].st = "freed" THEN [m EXCEPT !.dfree = TRUE]
    ELSE [m EXCEPT !.heap[p] = Freed]

\* avformat_close_input(&ptr): a no-op on nullptr; otherwise takes s->pb,
\* releases the context, sets the caller's pointer to nullptr and closes the
\* I/O handle it took.
avformat_close_input(m) ==
    IF m.ptr = Null THEN m
    ELSE IF m.heap[m.ptr].st = "freed"
    THEN [m EXCEPT !.uaf = TRUE, !.dfree = TRUE, !.ptr = Null]
    ELSE [m EXCEPT !.heap[m.ptr] = Freed,
                   !.ptr = Null,
                   !.open = IF m.heap[m.ptr].pb THEN m.open - 1 ELSE m.open]

\* avformat_alloc_output_context2(&ptr, nullptr, format, path): a fresh context
\* for a format some muxer has, else an error with the pointer set to nullptr.
avformat_alloc_output_context2(m, format) ==
    IF format \in KnownFormats
    THEN LET c == NAlloc + 1
         IN  [m EXCEPT !.heap[c] = NewContext(format), !.ptr = c]
    ELSE [m EXCEPT !.ptr = Null]

\* The Writer's pointer refers to a released context.
Dangling == _format_context # Null /\ heap[_format_context].st = "freed"

\* No operation runs in a process that faulted or whose Writer is destroyed.
Running == ~fault /\ ~destroyed /\ ~uaf /\ ~double_free

InstallLib(m) ==
    /\ heap' = m.heap
    /\ _format_context' = m.ptr
    /\ open_transports' = m.open
    /\ double_free' = m.dfree
    /\ uaf' = m.uaf

\* The operation dereferenced a pointer to a released context.
UseAfterFree(r) ==
    /\ uaf' = TRUE
    /\ last' = [r EXCEPT !.returned = FALSE, !.ret = FALSE]
    /\ UNCHANGED << _path, _format_context, _track_map, _trackinfo_map, heap,
                    open_transports, double_free, fault, lifecycle, registered >>

\* The operation dereferenced nullptr where the code expects a context: the
\* process faults, or the call carries on and returns some value.
NullDeref(r) ==
    /\ \E ub \in NullDerefOutcomes :
          /\ fault' = (ub = "fault")
          /\ last' = IF ub = "fault" THEN [r EXCEPT !.returned = FALSE, !.ret = FALSE]
                                     ELSE [r EXCEPT !.returned = TRUE, !.ret = (ub = "true")]
    /\ UNCHANGED << _path, _format_context, _track_map, _trackinfo_map, heap,
                    open_transports, double_free, uaf, registered >>

\* ----------------------------------------------------- RtmpWriter::SetPath

\* Lines 80-85: release the context the Writer holds, if any.
SetPathRelease(m) ==
    IF m.ptr # Null
    THEN LET m1 == avformat_close_input(m)
         IN  [avformat_free_context(m1, m1.ptr) EXCEPT !.ptr = Null]
    ELSE m

SetPath(path, format) ==
    /\ Running
    /\ IF path = ""
       THEN \* line 74
            /\ last' = Returned("SetPath", FALSE)
            /\ lifecycle' = "SetPath_fail"
            /\ UNCHANGED << _path, _format_context, heap, open_transports,
                            double_free, uaf >>
       ELSE /\ format \in KnownFormats => NAlloc < MaxCtx
            /\ _path' = path
            /\ LET m == avformat_alloc_output_context2(SetPathRelease(LibNow), format)
               IN  /\ InstallLib(m)
                   /\ last' = Returned("SetPath", m.ptr # Null)
                   /\ lifecycle' = IF m.ptr # Null THEN "SetPath_ok" ELSE "SetPath_fail"
    /\ UNCHANGED << _track_map, _trackinfo_map, fault, destroyed, registered >>

\* ------------------------------------------------------- RtmpWriter::Start

\* Line 121: the format needs an I/O handle opened by the caller.
NeedsOpen(c) == ~NoFile(c.oformat)

Start ==
    /\ Running
    /\ IF _format_context = Null
       THEN \* line 115 reads _format_context->url
            /\ NullDeref(Returned("Start", FALSE))
            /\ lifecycle' = IF fault' THEN lifecycle
                            ELSE IF last'.ret THEN "Start_ok" ELSE "Start_fail"
       ELSE IF Dangling
       THEN UseAfterFree(Returned("Start", FALSE))
       ELSE LET c == heap[_format_context]
            IN  /\ \E open_ok \in (IF NeedsOpen(c) THEN BOOLEAN ELSE {TRUE}) :
                      IF ~open_ok
                      THEN \* line 131: avio_open2 failed
                           /\ last' = Returned("Start", FALSE)
                           /\ lifecycle' = "Start_fail"
                           /\ UNCHANGED << heap, open_transports >>
                      ELSE /\ NeedsOpen(c) => open_transports < MaxOpen
                           \* line 123: avio_open2 stores a new handle in pb
                           /\ open_transports' =
                                 open_transports + (IF NeedsOpen(c) THEN 1 ELSE 0)
                           /\ \E header_ok \in BOOLEAN :
                                 /\ heap' = [heap EXCEPT ![_format_context] =
                                                [c EXCEPT !.pb = (@ \/ NeedsOpen(c)),
                                                          !.header = (@ \/ header_ok)]]
                                 \* lines 138 and 153
                                 /\ last' = Returned("Start", header_ok)
                                 /\ lifecycle' = IF header_ok THEN "Start_ok" ELSE "Start_fail"
                /\ UNCHANGED << _format_context, double_free, uaf, fault >>
    /\ UNCHANGED << _path, _track_map, _trackinfo_map, destroyed, registered >>

\* -------------------------------------------------------- RtmpWriter::Stop

\* Lines 160-170: close the transport if one is open, free the context, forget it.
StopRelease(m) ==
    IF m.ptr # Null
    THEN LET m1 == IF m.heap[m.ptr].pb THEN avformat_close_input(m) ELSE m
         IN  [avformat_free_context(m1, m1.ptr) EXCEPT !.ptr = Null]
    ELSE m

StopBody(op) ==
    IF Dangling
    THEN UseAfterFree(Returned(op, FALSE))
    ELSE /\ InstallLib(StopRelease(LibNow))
         /\ last' = Returned(op, TRUE)
         /\ lifecycle' = "Stop"
         /\ UNCHANGED << _path, _track_map, _trackinfo_map, fault, registered >>

Stop ==
    /\ Running
    /\ StopBody("Stop")
    /\ UNCHANGED destroyed

\* Lines 62-65: the destructor stops the Writer; no operation follows it.
Destroy ==
    /\ Running
    /\ StopBody("~RtmpWriter")
    /\ destroyed' = TRUE

\* ---------------------------------------------------- RtmpWriter::AddTrack

\* SupportedMedia with the default case lost: every media type gets a slot.
SupportedMediaAny(media_type) == media_type \in MediaTypes

\* Lines 185-264: the switch has a case for Video and one for Audio.
SupportedMedia(media_type) == media_type \in {"Video", "Audio"}

\* f with key k bound to v (std::map operator[] assignment).
MapPut(f, k, v) == [x \in (DOMAIN f) \cup {k} |-> IF x = k THEN v ELSE f[x]]

AddTrack(media_type, track_id, track_info) ==
    /\ Running
    /\ LET r == [Returned("AddTrack", FALSE) EXCEPT !.track = track_id,
                                                    !.media = media_type]
       IN  IF ~SupportedMedia(media_type)
           THEN \* line 261
                /\ last' = r
                /\ UNCHANGED << _track_map, _trackinfo_map, heap, fault, uaf,
                                registered >>
           ELSE IF _format_context = Null
           THEN \* lines 188/226: avformat_new_stream(nullptr, nullptr)
                /\ NullDeref(r)
           ELSE IF Dangling
           THEN UseAfterFree(r)
           ELSE LET c == heap[_format_context]
                IN  /\ c.nb_streams < MaxStreams
                    \* avformat_new_stream: a new slot at the end of streams[]
                    /\ heap' = [heap EXCEPT ![_format_context].nb_streams = @ + 1]
                    \* lines 220/254: stream->index is the slot's 0-based position
                    /\ _track_map' = MapPut(_track_map, track_id, c.nb_streams)
                    /\ _trackinfo_map' = MapPut(_trackinfo_map, track_id, track_info)
                    /\ registered' = registered \cup {track_id}
                    /\ last' = [r EXCEPT !.ret = TRUE, !.slots = 1]
                    /\ UNCHANGED << fault, uaf >>
    /\ UNCHANGED << _path, _format_context, open_transports, double_free,
                    destroyed, lifecycle >>

\* ----------------------------------------------------- RtmpWriter::PutData

\* _track_map.end()
End == -1

\* FindTrack as _track_map[track_id] would do it: a missing id reads as slot 0.
FindTrackDefault(track_id) ==
    IF track_id \in DOMAIN _track_map THEN _track_map[track_id] ELSE 0

\* Lines 283-289: _track_map.find(track_id), the slot index or End.
FindTrack(track_id) ==
    IF track_id \in DOMAIN _track_map THEN _track_map[track_id] ELSE End

\* Shape with the FLV and MP4 branches lost: every payload is taken as it is.
ShapeNothing(oformat, format) == "pass"

\* Lines 312-389: what PutData does to the payload for a container and a
\* bitstream format. "none" is the case no branch handles: the packet keeps
\* the size 0 and the null data pointer of its initialisation at line 302.
Shape(oformat, format) ==
    CASE oformat = "flv" ->
            (CASE format \in {"H264_AVCC", "AAC_RAW"}    -> "pass"
               [] format \in {"H264_ANNEXB", "AAC_ADTS"} -> "convert"
               [] OTHER                                  -> "reject")
      [] oformat = "mp4" ->
            (CASE format \in {"AAC_RAW", "H264_ANNEXB", "H264_AVCC"} -> "pass"
               [] format = "AAC_ADTS"                                   -> "convert"
               [] OTHER                                                 -> "reject")
      [] oformat = "mpegts" -> "pass"
      [] OTHER -> "none"

\* Line 391: av_interleaved_write_frame is called with the shaped packet and
\* returns 0 or an error; it rejects a packet whose slot does not exist.
InterleavedWrite(r, data, slot_ok) ==
    { [r EXCEPT !.wrote = TRUE, !.data = data, !.ret = write_ok] :
         write_ok \in (IF slot_ok THEN BOOLEAN ELSE {FALSE}) }

\* ShapeAndWrite with the returns of lines 326 and 342 lost: a packet whose
\* conversion failed is written all the same.
ShapeAndWriteDespiteFailure(c, r, format, slot_ok) ==
    LET shape == Shape(c.oformat, format)
    IN  CASE shape = "reject"  -> {r}
          [] shape = "convert" ->
                InterleavedWrite([r EXCEPT !.conv = "failed"], "unchanged", slot_ok)
                   \cup InterleavedWrite([r EXCEPT !.conv = "ok"], "converted", slot_ok)
          [] shape = "pass"    -> InterleavedWrite(r, "unchanged", slot_ok)
          [] OTHER             -> InterleavedWrite(r, "empty", slot_ok)

\* The last operation was a PutData that failed for its packet alone: the
\* converter returned nullptr or the interleaved write returned non-zero.
TransientFailure ==
    /\ last.op = "PutData" /\ last.returned /\ ~last.ret
    /\ (last.conv = "failed" \/ last.wrote)

\* Lines 309-401 for a packet whose slot was looked up: the results PutData
\* can have, by the outcome of the converter and of the write.
ShapeAndWrite(c, r, format, slot_ok) ==
    LET shape == Shape(c.oformat, format)
    IN  CASE shape = "reject"  -> {r}
          [] shape = "convert" ->
                \* lines 323-327 and 339-343: the converter returned nullptr
                {[r EXCEPT !.conv = "failed"]}
                   \cup InterleavedWrite([r EXCEPT !.conv = "ok"], "converted", slot_ok)
          [] shape = "pass"    -> InterleavedWrite(r, "unchanged", slot_ok)
          [] OTHER             -> InterleavedWrite(r, "empty", slot_ok)

PutData(track_id, format) ==
    /\ Running
    /\ LET r == [Returned("PutData", FALSE) EXCEPT !.track = track_id, !.format = format,
                                                   !.after = TransientFailure]
           stream_index == FindTrack(track_id)
       IN  IF _format_context = Null
           THEN \* line 278
                last' = r /\ UNCHANGED << fault, uaf >>
           ELSE IF stream_index = End
           THEN \* line 287
                last' = [r EXCEPT !.ret = TRUE] /\ UNCHANGED << fault, uaf >>
           ELSE IF Dangling
           THEN last' = [r EXCEPT !.returned = FALSE] /\ uaf' = TRUE /\ UNCHANGED fault
           ELSE LET c == heap[_format_context]
                IN  IF stream_index >= c.nb_streams
                    THEN \* line 291 reads streams[stream_index] beyond the array
                         \E ub \in StaleSlotOutcomes :
                            /\ fault' = (ub = "fault")
                            /\ UNCHANGED uaf
                            /\ last' \in
                                 CASE ub = "fault"   -> {[r EXCEPT !.returned = FALSE]}
                                   [] ub = "nullptr" -> {r}
                                   [] OTHER -> ShapeAndWrite(c, r, format, FALSE)
                    ELSE /\ last' \in ShapeAndWrite(c, r, format, TRUE)
                         /\ UNCHANGED << fault, uaf >>
    /\ UNCHANGED << _path, _format_context, _track_map, _trackinfo_map, heap,
                    open_transports, double_free, destroyed, lifecycle, registered >>

\* ------------------------------------------------------------------ Init

EmptyMap == [x \in {} |-> 0]

WriterInit ==
    /\ _path = ""
    /\ _format_context = Null
    /\ _track_map = EmptyMap
    /\ _trackinfo_map = EmptyMap
    /\ heap = [c \in CtxIds |-> Unallocated]
    /\ open_transports = 0
    /\ double_free = FALSE
    /\ uaf = FALSE
    /\ fault = FALSE
    /\ destroyed = FALSE
    /\ lifecycle = "none"
    /\ registered = {}
    /\ last = NoCall

LockInit ==
    /\ _lock = NoOwner
    /\ wpc = [t \in WThreads |-> Idle]

StreamInit ==
    /\ state = "CREATED"
    /\ sessions = {}
    /\ workers = 0
    /\ provisioned = 0
    /\ last_session_id = 0
    /\ ever_bound = {}
    /\ bytes_out = 0
    /\ bcast = [at |-> "none", n |-> 0, len |-> 0]
    /\ spc = [t \in SThreads |-> "idle"]
    /\ sret = [t \in SThreads |-> "none"]
    /\ slocal = [t \in SThreads |-> 0]

\* No packet is on its way through PutData.
NoTimestamps == [set |-> FALSE, pts |-> 0, dts |-> 0]

\* No packet of the track went through PutData before; out is the av_packet.pts
\* the earlier packet's pts became.
NoEarlier == [set |-> FALSE, pts |-> 0, out |-> 0]

RescaleIdle ==
    /\ time_base = [track |-> [num |-> 1, den |-> 1000], stream |-> [num |-> 1, den |-> 1000]]
    /\ packet = [pts |-> 0, dts |-> 0]
    /\ av_packet = NoTimestamps
    /\ prev_packet = NoEarlier

Init == WriterInit /\ LockInit /\ StreamInit /\ RescaleIdle

\* ------------------------------------------------- Spec: the Writer alone

\* A step of the Writer leaves its threads' bookkeeping and the Stream alone.
WriterOnly == UNCHANGED << lock_vars, stream_vars, rescale_vars >>

Next ==
    \/ \E path \in Paths, format \in Formats : SetPath(path, format) /\ WriterOnly
    \/ Start /\ WriterOnly
    \/ Stop /\ WriterOnly
    \/ Destroy /\ WriterOnly
    \/ \E media_type \in MediaTypes, track_id \in AddedTrackIds, track_info \in Descriptors :
          AddTrack(media_type, track_id, track_info) /\ WriterOnly
    \/ \E track_id \in TrackIds, format \in BitstreamFormats :
          PutData(track_id, format) /\ WriterOnly

Spec == Init /\ [][Next]_vars

\* --------------------------------------- LockSpec: the Writer's threads

\* std::unique_lock with the mutex taken by every thread without waiting.
TryLockNoWait(t) == TRUE

\* Lines 69, 108, 158, 177, 275: std::unique_lock<std::mutex> mlock(_lock)
\* returns once no thread owns the mutex.
TryLock(t) == _lock = NoOwner

\* A thread calls an operation and reaches its first line.
Call(t, op) ==
    /\ Running
    /\ wpc[t] = Idle
    /\ wpc' = [wpc EXCEPT ![t] = [at |-> "wait", op |-> op]]
    /\ UNCHANGED << writer_vars, _lock, stream_vars, rescale_vars >>

\* The first line of every operation: the thread takes _lock.
Lock(t) ==
    /\ wpc[t].at = "wait"
    /\ TryLock(t)
    /\ _lock' = t
    /\ wpc' = [wpc EXCEPT ![t].at = "in"]
    /\ UNCHANGED << writer_vars, stream_vars, rescale_vars >>

\* The operation's return destroys mlock, which releases _lock.
Unlock(t) ==
    /\ _lock' = NoOwner
    /\ wpc' = [wpc EXCEPT ![t] = Idle]
    /\ UNCHANGED << stream_vars, rescale_vars >>

In(t, op) == wpc[t] = [at |-> "in", op |-> op]

\* The arguments the threads pass under LockSpec: a container that needs a
\* transport, one that needs none and one that does not exist; a registered
\* and an unregistered track; a bitstream format FLV converts.
LockFormats == {"flv", "null", "bogus"}
LockMediaTypes == {"Video", "Data"}
LockDescriptors == { [codec |-> "H264", den |-> 1000] }
LockBitstreamFormats == {"H264_ANNEXB"}

RunSetPath(t) ==
    /\ In(t, "SetPath")
    /\ \E path \in Paths, format \in LockFormats : SetPath(path, format)
    /\ Unlock(t)

RunStart(t) == In(t, "Start") /\ Start /\ Unlock(t)

\* Stop takes two steps when it frees a context with no transport: line 167
\* releases the context and line 169 forgets the pointer, which refers to
\* released memory in between. In every other case it runs as one step.
StopFreesInPlace ==
    /\ _format_context # Null
    /\ ~Dangling
    /\ ~heap[_format_context].pb

\* Lines 160-167 of Stop.
RunStop_Free(t) ==
    /\ In(t, "Stop")
    /\ IF StopFreesInPlace
       THEN /\ Running
            /\ InstallLib(avformat_free_context(LibNow, _format_context))
            /\ wpc' = [wpc EXCEPT ![t].at = "Stop_169"]
            /\ UNCHANGED << _path, _track_map, _trackinfo_map, fault, destroyed,
                            lifecycle, registered, last, _lock, stream_vars,
                            rescale_vars >>
       ELSE Stop /\ Unlock(t)

\* Lines 169-172 of Stop.
RunStop_Forget(t) ==
    /\ wpc[t] = [at |-> "Stop_169", op |-> "Stop"]
    /\ _format_context' = Null
    /\ last' = Returned("Stop", TRUE)
    /\ lifecycle' = "Stop"
    /\ UNCHANGED << _path, _track_map, _trackinfo_map, heap, open_transports,
                    double_free, uaf, fault, destroyed, registered >>
    /\ Unlock(t)

\* The thread is inside the body of an operation.
Inside(t) == wpc[t].at \in {"in", "Stop_169"}

RunAddTrack(t) ==
    /\ In(t, "AddTrack")
    /\ \E media_type \in LockMediaTypes, track_id \in AddedTrackIds,
          track_info \in LockDescriptors :
          AddTrack(media_type, track_id, track_info)
    /\ Unlock(t)

RunPutData(t) ==
    /\ In(t, "PutData")
    /\ \E track_id \in TrackIds, format \in LockBitstreamFormats :
          PutData(track_id, format)
    /\ Unlock(t)

LockNext ==
    \/ \E t \in WThreads, op \in WriterOps : Call(t, op)
    \/ \E t \in WThreads : Lock(t)
    \/ \E t \in WThreads : RunSetPath(t)
    \/ \E t \in WThreads : RunStart(t)
    \/ \E t \in WThreads : RunStop_Free(t)
    \/ \E t \in WThreads : RunStop_Forget(t)
    \/ \E t \in WThreads : RunAddTrack(t)
    \/ \E t \in WThreads : RunPutData(t)

LockSpec == Init /\ [][LockNext]_vars

\* ------------------------------------- StreamSpec: MpegtsPushStream

\* Payload lengths of the packets the ingest side sends.
PayloadLengths == {2}

\* A step of the Stream leaves the Writer alone.
StreamOnly == UNCHANGED << writer_vars, lock_vars, rescale_vars >>

\* Thread t moves to position p; r is what the method returned, if it did.
Goto(t, p, r) ==
    /\ spc' = [spc EXCEPT ![t] = p]
    /\ sret' = [sret EXCEPT ![t] = r]

\* The positions at which a method of a control or session thread has returned.
ReturnSites == {"return_33", "return_38", "return_43", "return_52", "return_55",
                "return_93", "return_98"}

\* The caller takes the returned value and is free to call again.
StreamReturn(t) ==
    /\ spc[t] \in ReturnSites
    /\ Goto(t, "idle", "none")
    /\ slocal' = [slocal EXCEPT ![t] = 0]
    /\ UNCHANGED << state, sessions, workers, provisioned, last_session_id, ever_bound,
                    bytes_out, bcast >>
    /\ StreamOnly

\* StartRefused with the comparison against the wrong state.
StartRefusedWhenStopped(s) == s = "STOPPED"

\* Line 31: GetState() != Stream::State::CREATED
StartRefused(s) == s # "CREATED"

\* Line 50: GetState() != Stream::State::STARTED
StopRefused(s) == s # "STARTED"

\* Lines 69 and 79: GetState() != Stream::State::STARTED
SendRefused(s) == s # "STARTED"

\* Lines 29-34: a thread calls MpegtsPushStream::Start, which reads the state.
StreamStart_Check(t) ==
    /\ spc[t] = "idle"
    /\ IF StartRefused(state) THEN Goto(t, "return_33", "false")
                              ELSE Goto(t, "Start_36", "none")
    /\ UNCHANGED << state, sessions, workers, provisioned, last_session_id, ever_bound,
                    bytes_out, bcast, slocal >>
    /\ StreamOnly

\* Lines 36-39: CreateStreamWorker(2) provisions the pool or fails.
StreamStart_CreateWorker(t) ==
    /\ spc[t] = "Start_36"
    /\ \E ok \in BOOLEAN :
          IF ok THEN /\ workers' = 2
                     /\ provisioned' = provisioned + 1
                     /\ Goto(t, "Start_43", "none")
                ELSE /\ UNCHANGED << workers, provisioned >>
                     /\ Goto(t, "return_38", "false")
    /\ UNCHANGED << state, sessions, last_session_id, ever_bound, bytes_out, bcast, slocal >>
    /\ StreamOnly

\* pub::Stream::Start(): CREATED becomes STARTED; refused from any other state.
BaseStart(t, p) ==
    IF state = "CREATED"
    THEN state' = "STARTED" /\ Goto(t, p, "true")
    ELSE UNCHANGED state /\ Goto(t, p, "false")

\* Line 43: return Stream::Start()
StreamStart_Base(t) ==
    /\ spc[t] = "Start_43"
    /\ BaseStart(t, "return_43")
    /\ UNCHANGED << sessions, workers, provisioned, last_session_id, ever_bound, bytes_out,
                    bcast, slocal >>
    /\ StreamOnly

\* Lines 46-53: a thread calls MpegtsPushStream::Stop, which reads the state.
StreamStop_Check(t) ==
    /\ spc[t] = "idle"
    /\ IF StopRefused(state) THEN Goto(t, "return_52", "false")
                             ELSE Goto(t, "Stop_55", "none")
    /\ UNCHANGED << state, sessions, workers, provisioned, last_session_id, ever_bound,
                    bytes_out, bcast, slocal >>
    /\ StreamOnly

\* pub::Stream::Stop(): STARTED becomes STOPPED, the workers are stopped and
\* the sessions lose their association with the stream; refused from any
\* other state.
BaseStop(t, p) ==
    IF state = "STARTED"
    THEN /\ state' = "STOPPED"
         /\ sessions' = {}
         /\ workers' = 0
         /\ Goto(t, p, "true")
    ELSE /\ UNCHANGED << state, sessions, workers >>
         /\ Goto(t, p, "false")

\* Line 55: return Stream::Stop()
StreamStop_Base(t) ==
    /\ spc[t] = "Stop_55"
    /\ BaseStop(t, "return_55")
    /\ UNCHANGED << provisioned, last_session_id, ever_bound, bytes_out, bcast, slocal >>
    /\ StreamOnly

\* Lines 67-74 and 77-84: the ingest thread calls SendVideoFrame or
\* SendAudioFrame with a packet of n bytes; the method reads the state and
\* returns, or goes on to SendFrame.
SendGate(t, n) ==
    /\ spc[t] = "idle"
    /\ IF SendRefused(state)
       THEN UNCHANGED << spc, sret, slocal >>
       ELSE Goto(t, "SendFrame_62", "none") /\ slocal' = [slocal EXCEPT ![t] = n]
    /\ UNCHANGED << state, sessions, workers, provisioned, last_session_id, ever_bound,
                    bytes_out, bcast >>
    /\ StreamOnly

SendVideoFrame(t) == \E n \in PayloadLengths : SendGate(t, n)

SendAudioFrame(t) == \E n \in PayloadLengths : SendGate(t, n)

\* pub::Stream::BroadcastPacket: the packet goes to one snapshot of the
\* session set.
BroadcastPacket(len) ==
    bcast' = [at |-> state, n |-> Cardinality(sessions), len |-> len]

\* Line 62 of SendFrame.
SendFrame_Broadcast(t) ==
    /\ spc[t] = "SendFrame_62"
    /\ BroadcastPacket(slocal[t])
    /\ Goto(t, "SendFrame_64", "none")
    /\ UNCHANGED << state, sessions, workers, provisioned, last_session_id, ever_bound,
                    bytes_out, slocal >>
    /\ StreamOnly

\* pub::Stream::GetSessionCount: the size of the session set now.
GetSessionCount == Cardinality(sessions)

\* Lines 64-65 of SendFrame: IncreaseBytesOut(length * GetSessionCount()).
SendFrame_Account(t) ==
    /\ spc[t] = "SendFrame_64"
    /\ bytes_out' = slocal[t] * GetSessionCount
    /\ Goto(t, "idle", "none")
    /\ slocal' = [slocal EXCEPT ![t] = 0]
    /\ UNCHANGED << state, sessions, workers, provisioned, last_session_id, ever_bound, bcast >>
    /\ StreamOnly

\* pub::Stream::IssueUniqueSessionId: the next id, never one issued before.
IssueUniqueSessionId == last_session_id + 1

\* Lines 87-94: a thread calls CreatePushSession; an id is issued, then the
\* session is constructed or MpegtsPushSession::Create returns nullptr.
CreatePushSession_Create(t) ==
    /\ spc[t] = "idle"
    /\ last_session_id < MaxSessionId
    /\ last_session_id' = IssueUniqueSessionId
    /\ \E ok \in BOOLEAN :
          IF ok THEN /\ slocal' = [slocal EXCEPT ![t] = IssueUniqueSessionId]
                     /\ ever_bound' = ever_bound \cup {IssueUniqueSessionId}
                     /\ Goto(t, "CreatePushSession_96", "none")
                ELSE /\ UNCHANGED << slocal, ever_bound >>
                     /\ Goto(t, "return_93", "null")
    /\ UNCHANGED << state, sessions, workers, provisioned, bytes_out, bcast >>
    /\ StreamOnly

\* pub::Stream::AddSession: the session joins the session set.
AddSession(id) == sessions' = sessions \cup {id}

\* CreatePushSession with line 96 lost: the session is returned and not added.
CreatePushSession_NoAdd(t) ==
    /\ spc[t] = "CreatePushSession_96"
    /\ Goto(t, "return_98", "session")
    /\ UNCHANGED << state, sessions, workers, provisioned, last_session_id,
                    ever_bound, bytes_out, bcast, slocal >>
    /\ StreamOnly

\* Lines 96-98 of CreatePushSession.
CreatePushSession_Add(t) ==
    /\ spc[t] = "CreatePushSession_96"
    /\ AddSession(slocal[t])
    /\ Goto(t, "return_98", "session")
    /\ UNCHANGED << state, workers, provisioned, last_session_id, ever_bound, bytes_out,
                    bcast, slocal >>
    /\ StreamOnly

\* pub::Stream::RemoveSession: a session leaves when its target disconnects.
RemoveSession(id) ==
    /\ id \in sessions
    /\ sessions' = sessions \ {id}
    /\ UNCHANGED << state, workers, provisioned, last_session_id, ever_bound, bytes_out,
                    bcast, spc, sret, slocal >>
    /\ StreamOnly

StreamNext ==
    \/ \E t \in SThreads : StreamReturn(t)
    \/ \E t \in ControlThreads : StreamStart_Check(t)
    \/ \E t \in ControlThreads : StreamStart_CreateWorker(t)
    \/ \E t \in ControlThreads : StreamStart_Base(t)
    \/ \E t \in ControlThreads : StreamStop_Check(t)
    \/ \E t \in ControlThreads : StreamStop_Base(t)
    \/ \E t \in IngestThreads : SendVideoFrame(t)
    \/ \E t \in IngestThreads : SendAudioFrame(t)
    \/ \E t \in IngestThreads : SendFrame_Broadcast(t)
    \/ \E t \in IngestThreads : SendFrame_Account(t)
    \/ \E t \in SessionThreads : CreatePushSession_Create(t)
    \/ \E t \in SessionThreads : CreatePushSession_Add(t)
    \/ \E id \in 1..MaxSessionId : RemoveSession(id)

StreamSpec == Init /\ [][StreamNext]_vars

\* ------------------------- RescaleSpec: the timestamps of PutData

\* Timebases of track descriptors and of container slots: 1/1000 (FLV),
\* 1/90000 (MPEG-TS, video), 1/48000 (audio sample rate).
TimeBases == { [num |-> 1, den |-> 1000], [num |-> 1, den |-> 90000],
               [num |-> 1, den |-> 48000] }

\* pts and dts values: those around zero, three that fall on or next to a
\* half when scaled down, and the 500 of the specification's example.
Timestamps == (-MaxPts..MaxPts) \cup {24, 45, 500}

\* The packets of a track: dts never after pts.
Packets == { pk \in [pts : Timestamps, dts : Timestamps] : pk.dts <= pk.pts }

\* av_rescale_rnd(a, b, c, AV_ROUND_NEAR_INF): a * b / c rounded to the
\* nearest integer, halves away from zero; a negative a is rescaled as -a and
\* negated. The library computes the product without 64-bit overflow.
av_rescale_rnd(a, b, c) ==
    IF a < 0 THEN -(((-a) * b + c \div 2) \div c)
             ELSE (a * b + c \div 2) \div c

\* av_rescale_q(a, bq, cq) = av_rescale_rnd(a, bq.num * cq.den, cq.num * bq.den,
\* AV_ROUND_NEAR_INF)
av_rescale_q(a, bq, cq) == av_rescale_rnd(a, bq.num * cq.den, cq.num * bq.den)

\* a * b / c rounded toward zero.
av_rescale_q_zero(a, bq, cq) ==
    LET b == bq.num * cq.den
        c == cq.num * bq.den
    IN  IF a < 0 THEN -(((-a) * b) \div c) ELSE (a * b) \div c

\* Line 306: av_packet.pts
RescalePts(pts, track, stream) == av_rescale_q(pts, track, stream)

\* Line 307: av_packet.dts
RescaleDts(dts, track, stream) == av_rescale_q(dts, track, stream)

\* Lines 299-307: PutData fills av_packet's timestamps.
RescaleTimestamps ==
    /\ ~av_packet.set
    /\ av_packet' = [set |-> TRUE,
                     pts |-> RescalePts(packet.pts, time_base.track, time_base.stream),
                     dts |-> RescaleDts(packet.dts, time_base.track, time_base.stream)]
    /\ UNCHANGED << time_base, packet, prev_packet >>
    /\ UNCHANGED << writer_vars, lock_vars, stream_vars >>

\* Line 273: the caller hands PutData the track's next packet.
NextPacket ==
    /\ av_packet.set
    /\ prev_packet' = [set |-> TRUE, pts |-> packet.pts, out |-> av_packet.pts]
    /\ packet' \in Packets
    /\ av_packet' = NoTimestamps
    /\ UNCHANGED time_base
    /\ UNCHANGED << writer_vars, lock_vars, stream_vars >>

\* A track with any timebase in a slot with any timebase, and its first packet.
RescaleInit ==
    /\ WriterInit /\ LockInit /\ StreamInit
    /\ time_base \in [track : TimeBases, stream : TimeBases]
    /\ packet \in Packets
    /\ av_packet = NoTimestamps
    /\ prev_packet = NoEarlier

RescaleNext == RescaleTimestamps \/ NextPacket

RescaleSpec == RescaleInit /\ [][RescaleNext]_vars

\* ------------------------------------------------------ Writer properties

\* The Writer states of the data model, read off the most recent lifecycle
\* transition: not CONFIGURED is no target yet, started, or stopped.
NotConfigured == lifecycle \in {"none", "Start_ok", "Stop"}

ContextsLive == {c \in CtxIds : heap[c].st = "live"}

\* C3: PutData hands a packet to the multiplexer's interleaved write only if
\* the most recent lifecycle transition was a Start() that returned true.
C3_PutDataOnlyWhenOpen ==
    (last.op = "PutData" /\ last.wrote) => lifecycle = "Start_ok"

\* C4: an AddTrack call made when the Writer is not CONFIGURED allocates no
\* container stream slot and adds no entry to the track maps.
C4_AddTrackOnlyWhenConfigured ==
    (last.op = "AddTrack" /\ NotConfigured) => last.slots = 0

\* C5 as stated: PutData with a track id never registered returns true and
\* performs no multiplexer write, whatever state the Writer is in.
C5_TrackSilenceAnyState ==
    (last.op = "PutData" /\ last.track \notin registered)
        => (last.returned /\ last.ret /\ ~last.wrote)

\* C5 as amended: PutData with a track id never registered performs no
\* multiplexer write in any state; it returns true when the Writer holds a
\* container context and false when it holds none.
C5_TrackSilence ==
    (last.op = "PutData" /\ last.track \notin registered)
        => (last.returned /\ ~last.wrote /\ (last.ret <=> _format_context # Null))

\* C5's case: a context with a registered track, and a packet of another
\* track dropped with success.
C5_Witness ==
    /\ last.op = "PutData" /\ last.track \notin registered
    /\ last.ret /\ ~last.wrote
    /\ _format_context # Null /\ registered # {}

\* C7: every call of SetPath, AddTrack, Start, Stop and PutData completes by
\* returning true or false; none faults by using an absent container context.
C7_EveryCallReturns ==
    /\ ~fault
    /\ last.op # "none" => last.returned

\* C8: the Writer holds at most one live container context, no context is
\* released twice, and after Stop or destruction no context and no opened
\* transport remains unreleased.
C8_ContextAccounting ==
    /\ Cardinality(ContextsLive) <= 1
    /\ ~double_free
    /\ (last.op \in {"Stop", "~RtmpWriter"} /\ last.returned)
          => (ContextsLive = {} /\ open_transports = 0)

\* C9: from every reachable state Stop() returns true and leaves the Writer
\* with no container context and no open transport.
C9_StopUnconditional ==
    last.op = "Stop"
        => (last.returned /\ last.ret /\ _format_context = Null
            /\ ContextsLive = {} /\ open_transports = 0)

\* C10: AddTrack with a media type other than Video or Audio returns false,
\* creates no container stream slot and leaves both track maps as they were.
C10_UnsupportedMediaRejected ==
    [][(last'.op = "AddTrack" /\ last'.media \notin {"Video", "Audio"})
          => /\ last'.returned /\ ~last'.ret /\ last'.slots = 0
             /\ UNCHANGED << _track_map, _trackinfo_map, registered, heap,
                             _format_context, _path, open_transports >>]_vars

\* C10's case: a Writer with a context and no track, after AddTrack was
\* called with the Data media type: refused, the track id still absent.
C10_Witness ==
    /\ last.op = "AddTrack" /\ last.media = "Data"
    /\ last.returned /\ ~last.ret
    /\ _format_context # Null
    /\ last.track \notin DOMAIN _track_map
    /\ last.track \notin DOMAIN _trackinfo_map

\* C6: the operations of concurrent threads run one at a time, each owning
\* _lock while inside its body, and none accesses a container context after
\* Stop or a re-targeting SetPath released it.
C6_MutualExclusion ==
    /\ Cardinality({t \in WThreads : Inside(t)}) <= 1
    /\ \A t \in WThreads : Inside(t) => _lock = t
    /\ ~uaf

\* C6's case: a thread's Stop has released the context and not yet forgotten
\* the pointer to it, while the other thread's PutData for a registered track
\* is held at its first line.
C6_Witness ==
    /\ wpc["w1"] = [at |-> "Stop_169", op |-> "Stop"]
    /\ wpc["w2"] = [at |-> "wait", op |-> "PutData"]
    /\ Dangling
    /\ registered # {}

\* ------------------------------------------------------ Stream properties

\* What a refused Start or Stop must leave alone.
StreamData == << state, sessions, workers, provisioned, last_session_id, ever_bound,
                 bytes_out, bcast >>

\* Thread t calls Start in this step.
StartCalled(t) == spc[t] = "idle" /\ spc'[t] \in {"return_33", "Start_36"}

\* Thread t calls Stop in this step.
StopCalled(t) == spc[t] = "idle" /\ spc'[t] \in {"return_52", "Stop_55"}

\* C1: Start() called in any state other than CREATED returns false and
\* changes neither the state, the session set nor the worker pool; Stop()
\* called in any state other than STARTED returns false and changes no state.
C1_LifecycleGating ==
    [][\A t \in ControlThreads :
          /\ (StartCalled(t) /\ state # "CREATED")
                => /\ spc'[t] = "return_33" /\ sret'[t] = "false"
                   /\ UNCHANGED StreamData
          /\ (StopCalled(t) /\ state # "STARTED")
                => /\ spc'[t] = "return_52" /\ sret'[t] = "false"
                   /\ UNCHANGED StreamData]_vars

\* C1's case: on a stopped Stream that still has a session, one thread's
\* Start and the other thread's Stop have both been refused.
C1_Witness ==
    /\ state = "STOPPED"
    /\ spc["c1"] = "return_33" /\ sret["c1"] = "false"
    /\ spc["c2"] = "return_52" /\ sret["c2"] = "false"
    /\ sessions # {}

\* C2: every broadcast of a packet to the session set happens at a moment
\* when the Stream state is STARTED.
C2_BroadcastOnlyWhileStarted ==
    bcast.at # "none" => bcast.at = "STARTED"

\* ------------------------------------------- Writer properties, continued

\* The last operation was a PutData for a track of the track map, on a Writer
\* holding a context that has the track's slot.
PutDataOnSlot ==
    /\ last.op = "PutData"
    /\ _format_context # Null
    /\ heap[_format_context].st = "live"
    /\ last.track \in DOMAIN _track_map
    /\ _track_map[last.track] < heap[_format_context].nb_streams

\* The container format of the context the Writer holds.
Container == heap[_format_context].oformat

\* C11: when the container format is none of flv, mp4 and mpegts, PutData
\* for a registered track returns false and performs no multiplexer write,
\* for every bitstream format.
C11_UnsupportedContainerRejected ==
    (PutDataOnSlot /\ Container \notin {"flv", "mp4", "mpegts"})
        => (last.returned /\ ~last.ret /\ ~last.wrote)

\* What a PutData that fails for one packet must leave alone.
WriterResources == << _path, _format_context, heap, open_transports,
                      _track_map, _trackinfo_map, registered >>

\* C12: a PutData that returns false because the conversion failed or the
\* interleaved write returned non-zero leaves the container context, the
\* transport, the path and the track maps unchanged; a failed conversion
\* produces no multiplexer write; and the PutData that follows, given a
\* packet the container takes as it is, is handed to the multiplexer.
C12_TransientErrorsKeepWriter ==
    [][/\ TransientFailure' => UNCHANGED WriterResources
       /\ (last'.op = "PutData" /\ last'.conv = "failed") => ~last'.wrote
       /\ (/\ last'.op = "PutData" /\ last'.after
           /\ PutDataOnSlot'
           /\ Shape(Container', last'.format) = "pass") => last'.wrote]_vars

\* C12's case: on a started Writer a PutData whose conversion or write had
\* failed was followed by a PutData that was written and returned true.
C12_Witness ==
    /\ last.op = "PutData" /\ last.after
    /\ last.wrote /\ last.ret
    /\ lifecycle = "Start_ok"

\* ----------------------------------------------------- Rescale properties

\* Two packets of the track went through PutData, the earlier pts first.
TwoInOrder == av_packet.set /\ prev_packet.set /\ prev_packet.pts < packet.pts

\* One tick of the track is at least one tick of the slot.
SlotNoCoarser ==
    time_base.track.num * time_base.stream.den
        >= time_base.stream.num * time_base.track.den

\* C13 as stated: pts and dts are rescaled by one rounding rule, pts 500 at
\* 1/1000 becomes 45000 at 1/90000, and pts1 < pts2 gives rescaled(pts1) <
\* rescaled(pts2) for every pair of timebases.
C13_RescaleStrictOrder ==
    /\ (av_packet.set /\ packet.pts = packet.dts) => av_packet.pts = av_packet.dts
    /\ (/\ av_packet.set /\ packet.pts = 500
        /\ time_base.track = [num |-> 1, den |-> 1000]
        /\ time_base.stream = [num |-> 1, den |-> 90000]) => av_packet.pts = 45000
    /\ TwoInOrder => prev_packet.out < av_packet.pts

\* C13 as amended: pts and dts are rescaled by one rounding rule, pts 500 at
\* 1/1000 becomes 45000 at 1/90000, and pts1 < pts2 gives rescaled(pts1) <=
\* rescaled(pts2) for every pair of timebases, with < when the slot's
\* timebase is no coarser than the track's.
C13_RescaleOrder ==
    /\ (av_packet.set /\ packet.pts = packet.dts) => av_packet.pts = av_packet.dts
    /\ (/\ av_packet.set /\ packet.pts = 500
        /\ time_base.track = [num |-> 1, den |-> 1000]
        /\ time_base.stream = [num |-> 1, den |-> 90000]) => av_packet.pts = 45000
    /\ TwoInOrder => prev_packet.out <= av_packet.pts
    /\ (TwoInOrder /\ SlotNoCoarser) => prev_packet.out < av_packet.pts

\* C13's case: a track at 1/90000 in a slot at 1/1000, where two packets with
\* pts 1 and 2 were both rescaled to 0.
C13_Witness ==
    /\ TwoInOrder
    /\ time_base.track.den = 90000 /\ time_base.stream.den = 1000
    /\ prev_packet.pts = 1 /\ packet.pts = 2
    /\ prev_packet.out = 0 /\ av_packet.pts = 0

\* ------------------------------------------- Writer properties, continued

\* C14: an AddTrack with a track id that is already registered leaves the
\* track maps mapping that id to the original slot index and the original
\* descriptor, and the number of container stream slots unchanged.
C14_DescriptorImmutable ==
    [][(last'.op = "AddTrack" /\ last'.track \in DOMAIN _track_map)
          => /\ last'.slots = 0
             /\ last'.track \in DOMAIN _track_map'
             /\ _track_map'[last'.track] = _track_map[last'.track]
             /\ _trackinfo_map'[last'.track] = _trackinfo_map[last'.track]
             /\ UNCHANGED heap]_vars

\* C15: when SetPath returns false, the stored path, the container context
\* and the track maps are what they were before the call.
C15_FailedSetPathKeepsState ==
    [][(last'.op = "SetPath" /\ last'.returned /\ ~last'.ret)
          => UNCHANGED << _path, _format_context, heap, open_transports,
                          _track_map, _trackinfo_map >>]_vars

\* ------------------------------------------- Stream properties, continued

\* Thread t calls CreatePushSession in this step and the construction fails.
CreateFailed(t) == spc[t] = "idle" /\ spc'[t] = "return_93"

\* Thread t calls CreatePushSession in this step and a session is constructed.
CreateConstructed(t) == spc[t] = "idle" /\ spc'[t] = "CreatePushSession_96"

\* Thread t's CreatePushSession returns the session in this step.
CreateReturned(t) == spc[t] = "CreatePushSession_96" /\ spc'[t] = "return_98"

\* C16: if session construction fails, CreatePushSession returns null and
\* the session set is unchanged; if it succeeds, the returned session is in
\* the session set when the call returns, bound to an id that no other
\* session of this Stream has ever had.
C16_CreateSessionAtomic ==
    [][\A t \in SessionThreads :
          /\ CreateFailed(t) => (sret'[t] = "null" /\ UNCHANGED sessions)
          /\ CreateConstructed(t) => (slocal'[t] \notin ever_bound /\ UNCHANGED sessions)
          /\ CreateReturned(t)
                => /\ sret'[t] = "session"
                   /\ slocal[t] \in sessions'
                   /\ sessions' = sessions \cup {slocal[t]}]_vars

\* C16's case: after one session was created and added, a second
\* construction failed: null is returned, the id is spent and the session
\* set still holds the first session alone.
C16_Witness ==
    /\ spc["p1"] = "return_93" /\ sret["p1"] = "null"
    /\ last_session_id = 2
    /\ sessions = {1}

\* ------------------------------------------- Writer properties, continued

\* The last PutData forwarded the payload byte for byte, with no converter call.
PassedThrough == last.conv = "none" /\ last.wrote /\ last.data = "unchanged"

\* The last PutData called the converter; it wrote the converter's output, or
\* wrote nothing when the converter failed.
Converted ==
    \/ last.conv = "ok" /\ last.wrote /\ last.data = "converted"
    \/ last.conv = "failed" /\ ~last.wrote /\ ~last.ret

\* C17: for the three supported containers PutData shapes the payload by the
\* decision table: flv passes H264_AVCC and AAC_RAW through and converts
\* H264_ANNEXB and AAC_ADTS; mp4 passes H264_AVCC, H264_ANNEXB and AAC_RAW
\* through and converts AAC_ADTS; mpegts passes every format through.
C17_ShapingTable ==
    (PutDataOnSlot /\ last.returned) =>
        /\ (Container = "flv" /\ last.format \in {"H264_AVCC", "AAC_RAW"}) => PassedThrough
        /\ (Container = "flv" /\ last.format \in {"H264_ANNEXB", "AAC_ADTS"}) => Converted
        /\ (Container = "mp4" /\ last.format \in {"H264_AVCC", "H264_ANNEXB", "AAC_RAW"})
              => PassedThrough
        /\ (Container = "mp4" /\ last.format = "AAC_ADTS") => Converted
        /\ Container = "mpegts" => PassedThrough

\* C17's case: a started flv Writer converted a start-code-delimited video
\* packet and wrote the converter's output.
C17_Witness ==
    /\ PutDataOnSlot /\ Container = "flv" /\ last.format = "H264_ANNEXB"
    /\ last.conv = "ok" /\ last.wrote /\ last.data = "converted" /\ last.ret
    /\ lifecycle = "Start_ok"

\* ------------------------------------------- Stream properties, continued

\* C18: once a SendFrame call has returned, the amount it added to the
\* outbound byte counter is the payload length multiplied by the number of
\* sessions its packet was broadcast to.
C18_BytesMatchBroadcast ==
    (spc["i1"] = "idle" /\ bcast.at # "none")
        => bytes_out = bcast.len * bcast.n

\* ------------------------------------------- Writer properties, continued

\* C19: whenever the Writer holds a container context, every track id of the
\* track map maps to a slot index that the context has, and the two track
\* maps have the same key set.
C19_TrackMapValid ==
    (_format_context # Null /\ heap[_format_context].st = "live")
        => /\ \A k \in DOMAIN _track_map :
                 _track_map[k] >= 0 /\ _track_map[k] < heap[_format_context].nb_streams
           /\ DOMAIN _track_map = DOMAIN _trackinfo_map

\* ------------------------------------------- Stream properties, continued

\* The Start calls that have returned true.
StartedBy == {t \in ControlThreads : spc[t] = "return_43" /\ sret[t] = "true"}

\* The moves of the state machine: CREATED to STARTED to STOPPED.
Forward == { <<"CREATED", "STARTED">>, <<"STARTED", "STOPPED">> }

\* C20: under concurrent Start() and Stop() calls the worker pool is
\* provisioned at most once, at most one Start() returns true, the state only
\* moves CREATED to STARTED to STOPPED, and a Start() whose provisioning
\* fails returns false with the state still CREATED.
C20_SingleProvisioning ==
    [][/\ provisioned' <= 1
       /\ Cardinality(StartedBy') <= 1
       /\ state' # state => << state, state' >> \in Forward
       /\ \A t \in ControlThreads :
             (spc[t] = "Start_36" /\ spc'[t] = "return_38")
                => (sret'[t] = "false" /\ state' = "CREATED")]_vars

====
